---------------------------- MODULE Spec2Model ----------------------------
(***************************************************************************)
(* vitalBank: grouping of Vital synthesizer assets into banks.             *)
(*                                                                         *)
(* Two source files are modelled:                                          *)
(*   src/bankify.py        the script: its own Lfo / Preset / Wavetable /  *)
(*                         Bank classes, is_bank_obj, bank_comps, main     *)
(*   src/vital/__init__.py the library: VitalObject and its four kinds,    *)
(*                         Bank.add_object, Bank.write_file                *)
(*                                                                         *)
(* A Python str is a sequence of one-character strings; fixed literals of  *)
(* the source ('LFOs', 'vitallfo', '/', '.') are single tokens that no     *)
(* sequence of characters of the alphabet can spell.  An Optional value is *)
(* a sequence of length 0 (None) or 1.  A Python dict that the code        *)
(* iterates is a sequence of <<key, value>> pairs in insertion order.      *)
(***************************************************************************)
EXTENDS Integers, Sequences, FiniteSets, TLC

\* ------------------------------------------------------------------ bounds
MaxLen == 4
MaxDelimLen == 2
MaxFiles == 2
MaxObjs == 2

\* ----------------------------------------------------------------- strings
Alphabet == {"a", ":", " "}
Whitespace == {" "}

RECURSIVE StringsUpTo(_)
StringsUpTo(n) ==
    IF n = 0 THEN {<<>>}
    ELSE LET shorter == StringsUpTo(n - 1)
         IN  shorter \cup {Append(s, c) : s \in {t \in shorter : Len(t) = n - 1}, c \in Alphabet}

\* s.find(d, i): the least index j >= i at which d occurs in s, 0 when none
RECURSIVE str_find(_, _, _)
str_find(s, d, i) ==
    IF i + Len(d) - 1 > Len(s) THEN 0
    ELSE IF SubSeq(s, i, i + Len(d) - 1) = d THEN i
    ELSE str_find(s, d, i + 1)

\* s.split(sep=d) from index i on: left to right, non-overlapping occurrences
RECURSIVE split_from(_, _, _)
split_from(s, d, i) ==
    LET j == str_find(s, d, i)
    IN  IF j = 0 THEN <<SubSeq(s, i, Len(s))>>
        ELSE <<SubSeq(s, i, j - 1)>> \o split_from(s, d, j + Len(d))

str_split(s, d) == split_from(s, d, 1)

RECURSIVE lstrip(_)
lstrip(s) == IF s # <<>> /\ Head(s) \in Whitespace THEN lstrip(Tail(s)) ELSE s

RECURSIVE rstrip(_)
rstrip(s) ==
    IF s # <<>> /\ s[Len(s)] \in Whitespace THEN rstrip(SubSeq(s, 1, Len(s) - 1)) ELSE s

str_strip(s) == rstrip(lstrip(s))

\* --------------------------------------------- bankify.py: naming / grouping
is_bank_obj_one_or_more(delim, name) ==
    LET name_components == str_split(name, delim)
    IN  IF Len(name_components) > 2 THEN "raise"
        ELSE IF Len(name_components) >= 1 THEN "obj"
        ELSE "None"

\* is_bank_obj: "raise" (more than two components), "obj" (exactly two), "None"
is_bank_obj(delim, name) ==
    LET name_components == str_split(name, delim)
    IN  IF Len(name_components) > 2 THEN "raise"
        ELSE IF Len(name_components) = 2 THEN "obj"
        ELSE "None"

\* bank_comps: exc is "" on return, else which raise was taken
bank_comps(delim, name) ==
    LET name_components == str_split(name, delim)
    IN  IF Len(name_components) > 2
        THEN [exc |-> "multiple", bank_name |-> <<>>, obj_name |-> <<>>]
        ELSE IF Len(name_components) = 2
        THEN [exc |-> "",
              bank_name |-> str_strip(name_components[1]),
              obj_name |-> str_strip(name_components[2])]
        ELSE [exc |-> "no_bank", bank_name |-> <<>>, obj_name |-> <<>>]

\* ------------------------------------------------------------ Python dicts
\* a dict the code iterates: <<key, value>> pairs in insertion order
dict_keys(d) == {d[i][1] : i \in DOMAIN d}

dict_has(d, k) == k \in dict_keys(d)

dict_get(d, k) == d[CHOOSE i \in DOMAIN d : d[i][1] = k][2]

\* d[k] = v: replaces the value in place, or appends a new pair
dict_set(d, k, v) ==
    IF dict_has(d, k)
    THEN [i \in DOMAIN d |-> IF d[i][1] = k THEN <<k, v>> ELSE d[i]]
    ELSE Append(d, <<k, v>>)

\* d.setdefault(k, v)
dict_setdefault(d, k, v) == IF dict_has(d, k) THEN d ELSE Append(d, <<k, v>>)

\* a JSON document (a dict the code only indexes): a function on its keys
data_set(d, k, v) == [x \in DOMAIN d \cup {k} |-> IF x = k THEN v ELSE d[x]]

\* --------------------------------------------------------------- json text
Digit == <<"0", "1", "2", "3", "4", "5", "6", "7", "8", "9">>

\* json.dumps of a document with keys among 'name', 'settings'
json_dumps(d) ==
    <<"{">>
    \o (IF "name" \in DOMAIN d THEN <<"\"name\": ", "\"">> \o d.name \o <<"\"">> ELSE <<>>)
    \o (IF "name" \in DOMAIN d /\ "settings" \in DOMAIN d THEN <<", ">> ELSE <<>>)
    \o (IF "settings" \in DOMAIN d THEN <<"\"settings\": ", Digit[d.settings + 1]>> ELSE <<>>)
    \o <<"}">>

\* json.loads of such a text
json_loads(t) ==
    LET hasName == Len(t) >= 2 /\ t[2] = "\"name\": "
        close == IF hasName THEN CHOOSE k \in 4..Len(t) :
                                    t[k] = "\"" /\ \A m \in 4..(k - 1) : t[m] # "\""
                 ELSE 0
        sIdx == CHOOSE k \in DOMAIN t : k = Len(t) \/ t[k] = "\"settings\": "
        hasSettings == t[sIdx] = "\"settings\": "
        value == CHOOSE v \in 0..9 : Digit[v + 1] = t[sIdx + 1]
    IN  IF hasName /\ hasSettings
        THEN [name |-> SubSeq(t, 4, close - 1), settings |-> value]
        ELSE IF hasName THEN [name |-> SubSeq(t, 4, close - 1)]
        ELSE IF hasSettings THEN [settings |-> value]
        ELSE <<>>

\* ------------------------------------------------- bankify.py: the classes
TYPE_DATA == <<"Lfo", "Preset", "Wavetable">>

\* the classes bankify.py defines
Classes == {TYPE_DATA[i] : i \in DOMAIN TYPE_DATA}

DIR(cls) ==
    CASE cls = "Lfo" -> "LFOs"
      [] cls = "Preset" -> "Presets"
      [] cls = "Skin" -> "Skins"
      [] cls = "Wavetable" -> "Wavetables"

EXTENSION(cls) ==
    CASE cls = "Lfo" -> "vitallfo"
      [] cls = "Preset" -> "vital"
      [] cls = "Skin" -> "vitalskin"
      [] cls = "Wavetable" -> "vitaltable"

Bank_EXTENSION == "vitalbank"

NoObj == [cls |-> "None"]

\* Lfo.__init__ and Wavetable.__init__: self.name = self._data['name']
Lfo_init(cls, data, filepath) ==
    IF "name" \in DOMAIN data
    THEN [exc |-> "",
          obj |-> [cls |-> cls, _data |-> data, original_path |-> filepath,
                   name |-> data.name]]
    ELSE [exc |-> "KeyError", obj |-> NoObj]

\* Preset.__init__: the name comes from the file, else from kwargs
Preset_init(cls, data, filepath, kwargs) ==
    IF filepath # <<>>
    THEN [exc |-> "",
          obj |-> [cls |-> cls, _data |-> data, original_path |-> filepath,
                   name |-> filepath[1]]]
    ELSE IF "name" \in DOMAIN kwargs
    THEN [exc |-> "",
          obj |-> [cls |-> cls, _data |-> data, original_path |-> filepath,
                   name |-> kwargs.name]]
    ELSE [exc |-> "KeyError", obj |-> NoObj]

\* cls.from_file(filepath): cls(data=json.load(f), filepath=filepath)
from_file(cls, stem, data) ==
    IF cls = "Preset" THEN Preset_init(cls, data, <<stem>>, <<>>)
    ELSE Lfo_init(cls, data, <<stem>>)

\* cls(data=data, filepath=filepath, **kwargs) on the classes of bankify.py:
\* Lfo and Wavetable take no keyword but data and filepath
bankify_construct(cls, data, filepath, kwargs) ==
    IF cls = "Preset" THEN Preset_init(cls, data, filepath, kwargs)
    ELSE IF kwargs # <<>> THEN [exc |-> "TypeError", obj |-> NoObj]
    ELSE Lfo_init(cls, data, filepath)

\* Lfo.rename and Wavetable.rename
Lfo_rename_keep_data(obj, new_name) == [obj EXCEPT !.name = new_name]

Lfo_rename(obj, new_name) ==
    LET d == data_set(obj._data, "name", new_name)
    IN  [obj EXCEPT !._data = d, !.name = d.name]

\* Preset.rename
Preset_rename(obj, new_name) == [obj EXCEPT !.name = new_name]

rename(obj, new_name) ==
    IF obj.cls = "Preset" THEN Preset_rename(obj, new_name) ELSE Lfo_rename(obj, new_name)

\* Bank(bank_name, lfos=None, presets=None, wavetables=None)
Bank_init(bank_name) ==
    [name |-> bank_name,
     elements |-> <<<<"Lfo", <<>>>>, <<"Preset", <<>>>>, <<"Wavetable", <<>>>>>>]

\* the entries Bank.write_file hands to ZipFile.writestr, in order
RECURSIVE write_list(_, _, _)
write_list(bank_name, ct, ctd) ==
    IF ctd = <<>> THEN <<>>
    ELSE LET i == Head(ctd)
             zfile == bank_name \o <<"/", DIR(ct), "/">> \o i.name \o <<".", EXTENSION(ct)>>
         IN  <<[arcname |-> zfile, data |-> json_dumps(i._data)]>>
             \o write_list(bank_name, ct, Tail(ctd))

RECURSIVE write_elements(_, _)
write_elements(bank_name, elements) ==
    IF elements = <<>> THEN <<>>
    ELSE write_list(bank_name, Head(elements)[1], Head(elements)[2])
         \o write_elements(bank_name, Tail(elements))

Bank_write_file(bank) ==
    [filepath |-> bank.name \o <<".", Bank_EXTENSION>>,
     entries |-> write_elements(bank.name, bank.elements)]

\* --------------------------------------------- vital/__init__.py: objects
VitalKinds == {"Lfo", "Preset", "Skin", "Wavetable"}

\* VitalObject.__init__(data, filepath, **kwargs), shared by the four kinds
VitalObject_init(cls, data, filepath, kwargs) ==
    LET top_level_keys == DOMAIN data
        made(n) == [exc |-> "",
                    obj |-> [cls |-> cls, _modified |-> FALSE, _data |-> data,
                             original_path |-> filepath,
                             top_level_keys |-> top_level_keys, name |-> n]]
    IN  IF "name" \in top_level_keys THEN made(data.name)
        ELSE IF filepath # <<>> THEN made(filepath[1])
        ELSE IF "name" \in DOMAIN kwargs THEN made(kwargs.name)
        ELSE [exc |-> "Exception", obj |-> NoObj]

VitalObject_rename_always(obj, new_name) ==
    [obj EXCEPT !._data = data_set(@, "name", new_name),
                !.name = new_name,
                !._modified = TRUE]

\* VitalObject.rename(new_name)
VitalObject_rename(obj, new_name) ==
    [obj EXCEPT !._data = IF "name" \in obj.top_level_keys
                          THEN data_set(@, "name", new_name) ELSE @,
                !.name = new_name,
                !._modified = TRUE]

\* VitalObject.is_modified()
is_modified(obj) == obj._modified

\* VitalObject.return_data()
return_data(obj) == obj._data

\* Bank(bank_name, vital_objects=None)
vital_Bank_init(bank_name) == [name |-> bank_name, elements |-> <<>>]

\* isinstance(vital_object, VitalObject); an argument is a reference into the
\* heap of VitalObjects or a value of some other type
isinstance_VitalObject(arg) == arg.type \in VitalKinds

vital_Bank_add_object_first_wins(bank, arg, heap) ==
    IF ~isinstance_VitalObject(arg) THEN [exc |-> "Exception", bank |-> bank]
    ELSE LET e1 == dict_setdefault(bank.elements, arg.type, <<>>)
             inner == dict_get(e1, arg.type)
             e2 == dict_set(e1, arg.type, dict_setdefault(inner, heap[arg.ref].name, arg.ref))
         IN  [exc |-> "", bank |-> [bank EXCEPT !.elements = e2]]

vital_Bank_add_object_late_check(bank, arg, heap) ==
    LET e1 == dict_setdefault(bank.elements, arg.type, <<>>)
    IN  IF ~isinstance_VitalObject(arg)
        THEN [exc |-> "Exception", bank |-> [bank EXCEPT !.elements = e1]]
        ELSE LET inner == dict_get(e1, arg.type)
                 e2 == dict_set(e1, arg.type, dict_set(inner, heap[arg.ref].name, arg.ref))
             IN  [exc |-> "", bank |-> [bank EXCEPT !.elements = e2]]

\* Bank.add_object(vital_object)
vital_Bank_add_object(bank, arg, heap) ==
    IF ~isinstance_VitalObject(arg) THEN [exc |-> "Exception", bank |-> bank]
    ELSE LET e1 == dict_setdefault(bank.elements, arg.type, <<>>)
             inner == dict_get(e1, arg.type)
             e2 == dict_set(e1, arg.type, dict_set(inner, heap[arg.ref].name, arg.ref))
         IN  [exc |-> "", bank |-> [bank EXCEPT !.elements = e2]]

\* Bank.write_file: the entries handed to ZipFile.writestr, in order
RECURSIVE vital_write_values(_, _, _, _)
vital_write_values(bank_name, ct, ctd, heap) ==
    IF ctd = <<>> THEN <<>>
    ELSE LET i == heap[Head(ctd)[2]]
             zfile == bank_name \o <<"/", DIR(ct), "/">> \o i.name \o <<".", EXTENSION(ct)>>
         IN  <<[arcname |-> zfile, data |-> json_dumps(return_data(i))]>>
             \o vital_write_values(bank_name, ct, Tail(ctd), heap)

RECURSIVE vital_write_elements(_, _, _)
vital_write_elements(bank_name, elements, heap) ==
    IF elements = <<>> THEN <<>>
    ELSE vital_write_values(bank_name, Head(elements)[1], Head(elements)[2], heap)
         \o vital_write_elements(bank_name, Tail(elements), heap)

vital_Bank_write_file(bank, heap) ==
    [filepath |-> bank.name \o <<".", Bank_EXTENSION>>,
     entries |-> vital_write_elements(bank.name, bank.elements, heap)]

\* ------------------------------------------------------ bankify.py: main()
\* the files of the User directory and the configured delimiter
BankDelims == {<<":">>, <<":", ":">>}

FileStems ==
    {<<"a">>, <<"a", ":", "a">>, <<"a", ":", " ", "a">>, <<"a", ":", ":", "a">>,
     <<"a", ":">>, <<":", "a">>}

EmbeddedNames == {<<"a", ":", "a">>, <<"a", ":", ":", "a">>, <<" ", ":", "a">>}

Settings == {0}

FileData ==
    {[settings |-> v] : v \in Settings}
    \cup {[name |-> n, settings |-> v] : n \in EmbeddedNames, v \in Settings}

group_step_last_wins(bks, delim, clstype, vobj) ==
    LET ib == is_bank_obj(delim, vobj.name)
    IN  IF ib = "raise" THEN [exc |-> "multiple", banks |-> bks]
        ELSE IF ib = "None" THEN [exc |-> "", banks |-> bks]
        ELSE LET c == bank_comps(delim, vobj.name)
             IN  IF c.exc # "" THEN [exc |-> c.exc, banks |-> bks]
                 ELSE LET registered == dict_setdefault(bks, c.bank_name, Bank_init(c.bank_name))
                          renamed == rename(vobj, c.obj_name)
                          bank == dict_get(registered, c.bank_name)
                          others == SelectSeq(dict_get(bank.elements, clstype),
                                              LAMBDA o : o.name # renamed.name)
                          grown == [bank EXCEPT !.elements =
                                       dict_set(@, clstype, Append(others, renamed))]
                      IN  [exc |-> "", banks |-> dict_set(registered, c.bank_name, grown)]

\* main, lines 231-235: one object through classification and grouping
group_step(bks, delim, clstype, vobj) ==
    LET ib == is_bank_obj(delim, vobj.name)
    IN  IF ib = "raise" THEN [exc |-> "multiple", banks |-> bks]
        ELSE IF ib = "None" THEN [exc |-> "", banks |-> bks]
        ELSE LET c == bank_comps(delim, vobj.name)
             IN  IF c.exc # "" THEN [exc |-> c.exc, banks |-> bks]
                 ELSE LET registered == dict_setdefault(bks, c.bank_name, Bank_init(c.bank_name))
                          renamed == rename(vobj, c.obj_name)
                          bank == dict_get(registered, c.bank_name)
                          grown == [bank EXCEPT !.elements =
                                       dict_set(@, clstype, Append(dict_get(@, clstype), renamed))]
                      IN  [exc |-> "", banks |-> dict_set(registered, c.bank_name, grown)]

VARIABLES
    BANK_DELIM,   \* CONFIG['delimiter']
    pc,           \* "group", "write", "done", "crashed"
    typeIdx,      \* position of the outer loop in TYPE_DATA
    seenStems,    \* stems the glob of the current directory has yielded
    banks,        \* main's banks dict
    writeIdx,     \* position of the second loop in banks.values()
    archives,     \* the bank files written, in order
    error,        \* the exception that ended main, "" when none
    inputs        \* history: every file read, with the object made from it

mainVars == <<BANK_DELIM, pc, typeIdx, seenStems, banks, writeIdx, archives, error, inputs>>

VARIABLES
    objs,         \* the heap of VitalObjects, by reference
    vbank,        \* one vital Bank
    vexc,         \* what the last call raised, "" when it returned
    varchive,     \* the bank file as last written, <<>> before
    vadds,        \* history: per (kind, name), the last add_object that returned
    vhist,        \* history: per object, as constructed and its last rename
    vlast         \* history: when the last call was add_object or rename, its
                  \* argument, the Bank's elements before it, and whether a
                  \* rename repeated the object's previous rename

vitalVars == <<objs, vbank, vexc, varchive, vadds, vhist, vlast>>

VARIABLES s_name, s_delim, s_isbank, s_comps

splitVars == <<s_name, s_delim, s_isbank, s_comps>>

VARIABLES
    c_args,       \* constructor arguments: cls, data, filepath, kwargs
    c_vital,      \* what the class of vital/__init__.py made of them
    c_bankify     \* what the class of bankify.py made of them

ctorVars == <<c_args, c_vital, c_bankify>>

vars == <<splitVars, ctorVars, mainVars, vitalVars>>

NotMade == [exc |-> "not_called", obj |-> NoObj]

ctorIdle ==
    /\ c_args = [cls |-> "Lfo", data |-> <<>>, filepath |-> <<>>, kwargs |-> <<>>]
    /\ c_vital = NotMade
    /\ c_bankify = NotMade

NotCalled == [exc |-> "not_called", bank_name |-> <<>>, obj_name |-> <<>>]

NoCall == [op |-> "none", arg |-> [type |-> "None", ref |-> 0], before |-> <<>>,
           repeat |-> FALSE]

VitalBankName == <<"a">>

splitIdle == s_name = <<>> /\ s_delim = <<":">> /\ s_isbank = "not_called" /\ s_comps = NotCalled

mainIdle ==
    /\ BANK_DELIM = <<":">>
    /\ pc = "idle"
    /\ typeIdx = 1
    /\ seenStems = {}
    /\ banks = <<>>
    /\ writeIdx = 1
    /\ archives = <<>>
    /\ error = ""
    /\ inputs = <<>>

vitalIdle ==
    /\ objs = <<>>
    /\ vbank = vital_Bank_init(VitalBankName)
    /\ vexc = ""
    /\ varchive = <<>>
    /\ vadds = {}
    /\ vhist = <<>>
    /\ vlast = NoCall

\* ---------------------------------------------------------- main() as steps
MainInit ==
    /\ BANK_DELIM \in BankDelims
    /\ pc = "group"
    /\ typeIdx = 1
    /\ seenStems = {}
    /\ banks = <<>>
    /\ writeIdx = 1
    /\ archives = <<>>
    /\ error = ""
    /\ inputs = <<>>

ProcessFile_swallow(stem, data) ==
    /\ pc = "group"
    /\ Len(inputs) < MaxFiles
    /\ stem \notin seenStems
    /\ LET clstype == TYPE_DATA[typeIdx]
           made == from_file(clstype, stem, data)
           step == group_step(banks, BANK_DELIM, clstype, made.obj)
           exc == IF made.exc # "" THEN made.exc ELSE step.exc
       IN  /\ inputs' = Append(inputs, [cls |-> clstype, stem |-> stem, data |-> data,
                                        exc |-> made.exc, obj |-> made.obj])
           /\ seenStems' = seenStems \cup {stem}
           /\ banks' = IF exc # "" THEN banks ELSE step.banks
           /\ UNCHANGED <<pc, error>>
    /\ UNCHANGED <<BANK_DELIM, typeIdx, writeIdx, archives>>
    /\ UNCHANGED <<splitVars, ctorVars, vitalVars>>

\* one iteration of the inner loop of main: a file of the current type
ProcessFile(stem, data) ==
    /\ pc = "group"
    /\ Len(inputs) < MaxFiles
    /\ stem \notin seenStems
    /\ LET clstype == TYPE_DATA[typeIdx]
           made == from_file(clstype, stem, data)
           step == group_step(banks, BANK_DELIM, clstype, made.obj)
           exc == IF made.exc # "" THEN made.exc ELSE step.exc
       IN  /\ inputs' = Append(inputs, [cls |-> clstype, stem |-> stem, data |-> data,
                                        exc |-> made.exc, obj |-> made.obj])
           /\ seenStems' = seenStems \cup {stem}
           /\ IF exc # ""
              THEN /\ pc' = "crashed"
                   /\ error' = exc
                   /\ UNCHANGED banks
              ELSE /\ banks' = step.banks
                   /\ UNCHANGED <<pc, error>>
    /\ UNCHANGED <<BANK_DELIM, typeIdx, writeIdx, archives>>
    /\ UNCHANGED <<splitVars, ctorVars, vitalVars>>

\* the glob of the current directory is exhausted
EndOfDir ==
    /\ pc = "group"
    /\ IF typeIdx < Len(TYPE_DATA)
       THEN /\ typeIdx' = typeIdx + 1
            /\ seenStems' = {}
            /\ UNCHANGED pc
       ELSE /\ pc' = IF banks = <<>> THEN "done" ELSE "write"
            /\ UNCHANGED <<typeIdx, seenStems>>
    /\ UNCHANGED <<BANK_DELIM, banks, writeIdx, archives, error, inputs>>
    /\ UNCHANGED <<splitVars, ctorVars, vitalVars>>

\* one iteration of the second loop of main: bank.write_file
WriteBank ==
    /\ pc = "write"
    /\ archives' = Append(archives, Bank_write_file(banks[writeIdx][2]))
    /\ writeIdx' = writeIdx + 1
    /\ pc' = IF writeIdx = Len(banks) THEN "done" ELSE "write"
    /\ UNCHANGED <<BANK_DELIM, typeIdx, seenStems, banks, error, inputs>>
    /\ UNCHANGED <<splitVars, ctorVars, vitalVars>>

\* BANK_DIR.mkdir() or ZipFile(file=filepath, mode='w') raises
WriteFail ==
    /\ pc = "write"
    /\ pc' = "crashed"
    /\ error' = "OSError"
    /\ UNCHANGED <<BANK_DELIM, typeIdx, seenStems, banks, writeIdx, archives, inputs>>
    /\ UNCHANGED <<splitVars, ctorVars, vitalVars>>

Init == MainInit /\ splitIdle /\ ctorIdle /\ vitalIdle

Next ==
    \/ \E stem \in FileStems, data \in FileData : ProcessFile(stem, data)
    \/ EndOfDir
    \/ WriteBank
    \/ WriteFail

Spec == Init /\ [][Next]_vars

\* main runs to its end: every step that can be taken is taken
SpecFair == Spec /\ WF_vars(Next)

\* ------------------------------------------- the vital library, call by call
\* constructor arguments <<data, filepath, kwargs>>: one per branch of __init__
VCtorArgs ==
    {<<[name |-> <<"a">>, settings |-> 0], <<<<"b">>>>, [name |-> <<"c">>]>>,
     <<[settings |-> 0], <<<<"b">>>>, [name |-> <<"c">>]>>,
     <<[settings |-> 0], <<>>, <<>>>>}

VNewNames == {<<"a">>, <<"b">>}

\* the kinds the calls construct: all four share VitalObject's code
KindsUsed == {"Preset", "Skin"}

OtherTypes == {"str"}

VitalInit == vitalIdle /\ splitIdle /\ ctorIdle /\ mainIdle

\* cls(data=data, filepath=filepath, **kwargs)
Construct(cls, data, filepath, kwargs) ==
    /\ varchive = <<>>
    /\ Len(objs) < MaxObjs
    /\ LET made == VitalObject_init(cls, data, filepath, kwargs)
       IN  /\ vexc' = made.exc
           /\ vlast' = NoCall
           /\ IF made.exc = ""
              THEN /\ objs' = Append(objs, made.obj)
                   /\ vhist' = Append(vhist, [obj0 |-> made.obj, last |-> <<>>])
              ELSE UNCHANGED <<objs, vhist>>
    /\ UNCHANGED <<vbank, varchive, vadds>>
    /\ UNCHANGED <<splitVars, ctorVars, mainVars>>

\* objs[ref].rename(new_name)
Rename(ref, new_name) ==
    /\ varchive = <<>>
    /\ objs' = [objs EXCEPT ![ref] = VitalObject_rename(@, new_name)]
    /\ vhist' = [vhist EXCEPT ![ref].last = <<new_name>>]
    /\ vexc' = ""
    /\ vlast' = [op |-> "rename", arg |-> [type |-> objs[ref].cls, ref |-> ref],
                 before |-> vbank.elements, repeat |-> vhist[ref].last = <<new_name>>]
    /\ UNCHANGED <<vbank, varchive, vadds>>
    /\ UNCHANGED <<splitVars, ctorVars, mainVars>>

\* vbank.add_object(arg)
AddObject(arg) ==
    /\ varchive = <<>>
    /\ LET r == vital_Bank_add_object(vbank, arg, objs)
       IN  /\ vbank' = r.bank
           /\ vexc' = r.exc
           /\ vadds' = IF r.exc = ""
                       THEN {e \in vadds : ~(e.cls = arg.type /\ e.name = objs[arg.ref].name)}
                            \cup {[cls |-> arg.type, name |-> objs[arg.ref].name,
                                   ref |-> arg.ref]}
                       ELSE vadds
    /\ vlast' = [op |-> "add_object", arg |-> arg, before |-> vbank.elements,
                 repeat |-> FALSE]
    /\ UNCHANGED <<objs, varchive, vhist>>
    /\ UNCHANGED <<splitVars, ctorVars, mainVars>>

\* vbank.write_file(filedir); the Bank is not used after it is written
WriteFile ==
    /\ varchive = <<>>
    /\ varchive' = <<vital_Bank_write_file(vbank, objs)>>
    /\ vexc' = ""
    /\ vlast' = NoCall
    /\ UNCHANGED <<objs, vbank, vadds, vhist>>
    /\ UNCHANGED <<splitVars, ctorVars, mainVars>>

VitalNext ==
    \/ \E cls \in KindsUsed, a \in VCtorArgs : Construct(cls, a[1], a[2], a[3])
    \/ \E ref \in DOMAIN objs, new_name \in VNewNames : Rename(ref, new_name)
    \/ \E ref \in DOMAIN objs : AddObject([type |-> objs[ref].cls, ref |-> ref])
    \/ \E t \in OtherTypes : AddObject([type |-> t, ref |-> 0])
    \/ WriteFile

SpecVital == VitalInit /\ [][VitalNext]_vars

\* --------------------------------------- is_bank_obj / bank_comps, input by input
SplitInit ==
    /\ s_name \in StringsUpTo(MaxLen)
    /\ s_delim \in StringsUpTo(MaxDelimLen) \ {<<>>}
    /\ s_isbank = "not_called"
    /\ s_comps = NotCalled

SplitInitAll == SplitInit /\ ctorIdle /\ mainIdle /\ vitalIdle

CallIsBankObj ==
    /\ s_isbank = "not_called"
    /\ s_isbank' = is_bank_obj(s_delim, s_name)
    /\ UNCHANGED <<s_name, s_delim, s_comps>>
    /\ UNCHANGED <<ctorVars, mainVars, vitalVars>>

CallBankComps ==
    /\ s_comps = NotCalled
    /\ s_comps' = bank_comps(s_delim, s_name)
    /\ UNCHANGED <<s_name, s_delim, s_isbank>>
    /\ UNCHANGED <<ctorVars, mainVars, vitalVars>>

SplitNext == CallIsBankObj \/ CallBankComps

SpecSplit == SplitInitAll /\ [][SplitNext]_vars


\* ------------------------------------------------ construction, input by input
CtorNames == {<<"a">>, <<"b">>, <<"c">>}

CtorData ==
    {[settings |-> 0]} \cup {[name |-> n, settings |-> 0] : n \in CtorNames}

CtorInit ==
    /\ c_args \in [cls : VitalKinds,
                   data : CtorData,
                   filepath : {<<>>} \cup {<<n>> : n \in CtorNames},
                   kwargs : {<<>>} \cup {[name |-> n] : n \in CtorNames}]
    /\ c_vital = NotMade
    /\ c_bankify = NotMade
    /\ splitIdle /\ mainIdle /\ vitalIdle

\* vital.<cls>(data=..., filepath=..., **kwargs)
CallVitalInit ==
    /\ c_vital = NotMade
    /\ c_vital' = VitalObject_init(c_args.cls, c_args.data, c_args.filepath, c_args.kwargs)
    /\ UNCHANGED <<c_args, c_bankify>>
    /\ UNCHANGED <<splitVars, mainVars, vitalVars>>

\* bankify.<cls>(data=..., filepath=..., **kwargs); bankify.py has no Skin
CallBankifyInit ==
    /\ c_bankify = NotMade
    /\ c_args.cls \in Classes
    /\ c_bankify' = bankify_construct(c_args.cls, c_args.data, c_args.filepath, c_args.kwargs)
    /\ UNCHANGED <<c_args, c_vital>>
    /\ UNCHANGED <<splitVars, mainVars, vitalVars>>

CtorNext == CallVitalInit \/ CallBankifyInit

SpecCtor == CtorInit /\ [][CtorNext]_vars

\* ------------------------------------------------------------------ claims
\* d occurs in s
Occurs(s, d) ==
    \E i \in 1..Len(s) : i + Len(d) - 1 <= Len(s) /\ SubSeq(s, i, i + Len(d) - 1) = d

RECURSIVE Join(_, _)
Join(parts, d) ==
    IF Len(parts) = 1 THEN parts[1] ELSE parts[1] \o d \o Join(Tail(parts), d)

\* y is x without its surrounding whitespace
IsStripOf(y, x) ==
    /\ y = <<>> \/ (y[1] \notin Whitespace /\ y[Len(y)] \notin Whitespace)
    /\ \E i \in 0..Len(x) :
          /\ i + Len(y) <= Len(x)
          /\ SubSeq(x, i + 1, i + Len(y)) = y
          /\ \A k \in (1..i) \cup ((i + Len(y) + 1)..Len(x)) : x[k] \in Whitespace

\* C1: the classification of a name depends only on the number of substrings
\* the split on the delimiter produces: one substring, is_bank_obj returns None
\* (and the delimiter does not occur); two, it returns the object and
\* bank_comps returns the two substrings with surrounding whitespace stripped;
\* three or more, both raise the multiple-delimiter error.  bank_comps never
\* raises on a name for which is_bank_obj returned the object.
C1_Classification ==
    LET parts == str_split(s_name, s_delim)
        n == Len(parts)
    IN  /\ Join(parts, s_delim) = s_name
        /\ s_isbank # "not_called" =>
              /\ (n = 1) <=> (s_isbank = "None")
              /\ (n = 2) <=> (s_isbank = "obj")
              /\ (n >= 3) <=> (s_isbank = "raise")
              /\ (s_isbank = "None") <=> ~Occurs(s_name, s_delim)
        /\ s_comps # NotCalled =>
              /\ (n = 2) <=> (s_comps.exc = "")
              /\ (n >= 3) <=> (s_comps.exc = "multiple")
              /\ n = 2 => /\ IsStripOf(s_comps.bank_name, parts[1])
                          /\ IsStripOf(s_comps.obj_name, parts[2])
        /\ (s_isbank # "not_called" /\ s_comps # NotCalled) =>
              /\ s_isbank = "obj" => s_comps.exc = ""
              /\ (s_isbank = "raise") <=> (s_comps.exc = "multiple")

\* both were called on a two-character delimiter, on a name whose bank part
\* carried whitespace that was stripped
C1_Witness ==
    /\ Len(s_delim) = 2
    /\ s_isbank = "obj"
    /\ s_comps.exc = ""
    /\ s_comps.bank_name # <<>>
    /\ s_comps.bank_name # str_split(s_name, s_delim)[1]

\* ---- main(): what the banks hold and what was written
\* the objects of a bank in the order write_file visits them
RECURSIVE Flatten(_)
Flatten(elements) ==
    IF elements = <<>> THEN <<>> ELSE Head(elements)[2] \o Flatten(Tail(elements))

\* where the object made from file (cls, stem) is held: <<bank index, position>>
Holdings(cls, stem) ==
    UNION {{<<b, i>> : i \in {j \in DOMAIN dict_get(banks[b][2].elements, cls) :
                                dict_get(banks[b][2].elements, cls)[j].original_path
                                   = <<stem>>}} : b \in DOMAIN banks}

\* the file an object was made from
InputOf(obj) ==
    inputs[CHOOSE k \in DOMAIN inputs :
              inputs[k].cls = obj.cls /\ <<inputs[k].stem>> = obj.original_path]

\* C3: serializing a Bank writes one archive entry per (kind, member name)
\* held, at "{bank}/{DIR}/{name}.{EXTENSION}", and no two entries of one
\* archive have the same path, also when two files of one kind yield the same
\* bank name and the same clean member name.
C3_NoPathCollision ==
    \A a \in DOMAIN archives :
        LET entries == archives[a].entries
            held == Flatten(banks[a][2].elements)
        IN  /\ Len(entries) = Cardinality({<<held[i].cls, held[i].name>> : i \in DOMAIN held})
            /\ \A i, j \in DOMAIN entries :
                  i # j => entries[i].arcname # entries[j].arcname

\* C4: after grouping, every object whose name (as constructed) splits into
\* exactly two substrings is held exactly once, in the Bank registered under
\* its stripped bank name, and every object whose name holds no delimiter is
\* held by no Bank.  Stated for every file grouped so far whose object was
\* constructed and whose name is not ambiguous.
C4_HeldByExactlyOneBank ==
    \A k \in DOMAIN inputs :
        LET inp == inputs[k]
            parts == str_split(inp.obj.name, BANK_DELIM)
            held == Holdings(inp.cls, inp.stem)
        IN  inp.exc = "" =>
              /\ Len(parts) = 1 => held = {}
              /\ Len(parts) = 2 =>
                    /\ Cardinality(held) = 1
                    /\ \A h \in held :
                          /\ IsStripOf(banks[h[1]][1], parts[1])
                          /\ banks[h[1]][2].name = banks[h[1]][1]
                          /\ \A b \in DOMAIN banks :
                                banks[b][1] = banks[h[1]][1] => b = h[1]

\* main has ended without error, one file's object is held by a Bank whose
\* name was stripped of whitespace, another file's object is held by none
C4_Witness ==
    /\ pc = "done"
    /\ \E k1, k2 \in DOMAIN inputs :
          /\ Holdings(inputs[k1].cls, inputs[k1].stem) # {}
          /\ str_split(inputs[k1].obj.name, BANK_DELIM)[1]
                # banks[1][1]
          /\ Holdings(inputs[k2].cls, inputs[k2].stem) = {}

\* the name of the object made from a file was read from the document
NameFromDocument(inp) == inp.cls # "Preset"

\* C8 as claimed: every archive entry decodes back to the document its asset
\* was constructed from.
C8_DecodesToOriginal ==
    \A a \in DOMAIN archives :
        LET entries == archives[a].entries
            held == Flatten(banks[a][2].elements)
        IN  \A i \in DOMAIN entries :
               json_loads(entries[i].data) = InputOf(held[i]).data

\* C8 amended: every archive entry decodes to the asset's document as it
\* stands after grouping: the document it was constructed from, except that
\* when the asset's name was read from the document's name field, that field
\* holds the clean member name.
C8_DecodesToRenamed ==
    \A a \in DOMAIN archives :
        LET entries == archives[a].entries
            held == Flatten(banks[a][2].elements)
        IN  /\ Len(entries) = Len(held)
            /\ \A i \in DOMAIN entries :
                  LET inp == InputOf(held[i])
                      clean == str_split(inp.obj.name, BANK_DELIM)[2]
                  IN  /\ IsStripOf(held[i].name, clean)
                      /\ json_loads(entries[i].data) =
                            IF NameFromDocument(inp)
                            THEN [inp.data EXCEPT !.name = held[i].name]
                            ELSE inp.data

\* an archive holds an entry of an asset named from its document and an entry
\* of a Preset whose document has a name field of its own
C8_Witness ==
    \E a \in DOMAIN archives :
        LET held == Flatten(banks[a][2].elements)
        IN  /\ Len(archives[a].entries) = 2
            /\ \E i, j \in DOMAIN held :
                  /\ NameFromDocument(InputOf(held[i]))
                  /\ held[j].cls = "Preset"
                  /\ "name" \in DOMAIN held[j]._data

\* C9: an asset constructed with a non-empty name still has a non-empty name
\* after grouping has renamed it, and the name of the Bank it is registered
\* under is non-empty too.
C9_NamesNonEmpty ==
    \A b \in DOMAIN banks :
        /\ banks[b][1] # <<>>
        /\ banks[b][2].name # <<>>
        /\ \A i \in DOMAIN Flatten(banks[b][2].elements) :
              /\ InputOf(Flatten(banks[b][2].elements)[i]).obj.name # <<>>
              /\ Flatten(banks[b][2].elements)[i].name # <<>>

\* the object made from input k has a name with more than one delimiter
Ambiguous(k) ==
    inputs[k].exc = "" /\ Len(str_split(inputs[k].obj.name, BANK_DELIM)) > 2

\* how many times the file of bank b was written
TimesWritten(b) ==
    Cardinality({a \in DOMAIN archives :
                    archives[a].filepath = banks[b][1] \o <<".", Bank_EXTENSION>>})

\* C10: an archive is written only after the last file has been classified
\* and grouped (once a write has happened no file is read and no Bank
\* changes); when main ends without error every registered Bank has been
\* written exactly once, and main does end; in a run where classifying an
\* asset raised the multiple-delimiter error main has halted and no archive
\* was written, whatever Banks earlier assets populated.
C10_WritesAfterGrouping ==
    /\ [](archives # <<>> => pc \in {"write", "done", "crashed"})
    /\ [][archives' # <<>> => (inputs' = inputs /\ banks' = banks)]_vars
    /\ [](pc = "done" =>
             /\ Len(archives) = Len(banks)
             /\ \A b \in DOMAIN banks : TimesWritten(b) = 1)
    /\ []((\E k \in DOMAIN inputs : Ambiguous(k)) =>
             (pc = "crashed" /\ error = "multiple" /\ archives = <<>>))
    /\ <>(pc \in {"done", "crashed"})

\* main has ended after writing two Banks
C10_Witness == pc = "done" /\ Len(banks) = 2 /\ Len(archives) = 2

\* a Bank was populated before an ambiguous name halted main
C10_WitnessHalt ==
    /\ banks # <<>>
    /\ \E k \in DOMAIN inputs : Ambiguous(k)

\* ---- the vital library: what the Bank holds
\* the <<kind, name, reference>> entries of the Bank, with multiplicity
BankEntries(elements) ==
    UNION {{<<o, i>> : i \in DOMAIN elements[o][2]} : o \in DOMAIN elements}

EntryOf(elements, p) ==
    [cls |-> elements[p[1]][1],
     name |-> elements[p[1]][2][p[2]][1],
     ref |-> elements[p[1]][2][p[2]][2]]

\* C2: after any sequence of add_object calls the Bank holds, for every
\* (kind, name) ever added, exactly one entry, and it is the object most
\* recently added under that kind and name; it holds nothing else.  So an
\* add under a (kind, name) already present replaces that entry, raises
\* nothing and leaves every other entry as it was.
C2_LastAddWins ==
    LET elements == vbank.elements
        entries == BankEntries(elements)
    IN  /\ \A p, q \in entries :
              (EntryOf(elements, p).cls = EntryOf(elements, q).cls
               /\ EntryOf(elements, p).name = EntryOf(elements, q).name) => p = q
        /\ {EntryOf(elements, p) : p \in entries} = vadds
        /\ (vlast.op = "add_object" /\ vlast.arg.type \in VitalKinds) =>
              /\ vexc = ""
              /\ \A p \in BankEntries(vlast.before) :
                    LET e == EntryOf(vlast.before, p)
                    IN  (e.cls # vlast.arg.type \/ e.name # objs[vlast.arg.ref].name)
                        => e \in vadds

\* the last add_object replaced the entry of another object while a second
\* entry of the Bank stayed
C2_Witness ==
    /\ vlast.op = "add_object"
    /\ vexc = ""
    /\ \E p \in BankEntries(vlast.before) :
          LET e == EntryOf(vlast.before, p)
          IN  /\ e.cls = vlast.arg.type
              /\ e.name = objs[vlast.arg.ref].name
              /\ e.ref # vlast.arg.ref
    /\ Cardinality(BankEntries(vbank.elements)) >= 2

\* C6: add_object with a value that is no VitalObject raises and leaves the
\* Bank's elements as they were: no kind sub-mapping created, no entry
\* inserted, removed or replaced.
C6_RejectsNonAsset ==
    (vlast.op = "add_object" /\ vlast.arg.type \notin VitalKinds) =>
        /\ vexc = "Exception"
        /\ vbank.elements = vlast.before
        /\ dict_keys(vbank.elements) \subseteq VitalKinds

\* a non-asset was just refused by a Bank that holds an entry
C6_Witness ==
    /\ vlast.op = "add_object"
    /\ vlast.arg.type \notin VitalKinds
    /\ vexc = "Exception"
    /\ BankEntries(vbank.elements) # {}

\* C7: an object never renamed is as constructed, with is_modified() false;
\* an object renamed one or more times, last to n, is the object as
\* constructed with name n, is_modified() true and, when its document had a
\* name field, that field set to n, else its document untouched.  The state
\* after rename(n) depends on n alone, so a second rename(n) changes nothing.
C7_RenameIdempotent ==
    \A r \in DOMAIN objs :
        LET o == objs[r]
            o0 == vhist[r].obj0
            embedded == "name" \in DOMAIN o0._data
        IN  /\ ~is_modified(o0)
            /\ vhist[r].last = <<>> => o = o0
            /\ vhist[r].last # <<>> =>
                  LET n == vhist[r].last[1]
                  IN  /\ is_modified(o)
                      /\ o.name = n
                      /\ embedded => return_data(o) = [o0._data EXCEPT !.name = n]
                      /\ ~embedded => return_data(o) = o0._data
                      /\ o = [o0 EXCEPT !.name = n, !._modified = TRUE,
                                        !._data = return_data(o)]

\* the last call renamed an object to the name of its previous rename; one
\* object with a name field in its document and one without have been renamed
C7_Witness ==
    /\ vlast.op = "rename"
    /\ vlast.repeat
    /\ \E r1, r2 \in DOMAIN objs :
          /\ vhist[r1].last # <<>> /\ "name" \in DOMAIN vhist[r1].obj0._data
          /\ vhist[r2].last # <<>> /\ "name" \notin DOMAIN vhist[r2].obj0._data

\* ---- construction
\* the name-resolution priority: document name, else file stem, else the
\* explicit name, else failure
FollowsPriority(args, made) ==
    IF "name" \in DOMAIN args.data
    THEN made.exc = "" /\ made.obj.name = args.data.name
    ELSE IF args.filepath # <<>>
    THEN made.exc = "" /\ made.obj.name = args.filepath[1]
    ELSE IF "name" \in DOMAIN args.kwargs
    THEN made.exc = "" /\ made.obj.name = args.kwargs.name
    ELSE made.exc # "" /\ made.obj = NoObj

\* C5: construction resolves the name by strict priority, for every kind:
\* the document's name field regardless of path and explicit name, else the
\* stem of the path, else the explicit name, else construction fails.
C5_NamePriority ==
    /\ c_vital # NotMade => FollowsPriority(c_args, c_vital)
    /\ c_bankify # NotMade => FollowsPriority(c_args, c_bankify)

\* ... of which the part about the classes of vital/__init__.py
C5_VitalNamePriority == c_vital # NotMade => FollowsPriority(c_args, c_vital)

=============================================================================
